---- MODULE Spec2Model ----
(***************************************************************************)
(* The loop:// serial port of serial/urlhandler/protocol_loop.py: one      *)
(* Serial object, used by a writer thread (write), a reader thread (read)  *)
(* and a control thread (open, close, resets, line setters and queries).   *)
(* Every queue.Queue method call is one atomic step (the queue holds its   *)
(* own mutex); a thread that has to wait inside put()/get() stays at that  *)
(* call until the queue object it called lets it proceed or its timeout    *)
(* expires.                                                                *)
(***************************************************************************)
EXTENDS Integers, Sequences, FiniteSets, TLC

\* ---------------------------------------------------------------- bounds
\* Serial.buffer_size is 4096 in the source; the model scales it down.
buffer_size == 2
\* longest argument of write() and largest size argument of read()
MaxLen == 2
\* number of queue.Queue objects open() may create in one behaviour
MaxOpens == 2
\* number of bytes write() may be asked to send in one behaviour whose
\* bytes are followed from write() to read()
MaxBytes == 5

\* ------------------------------------------------------------- constants
\* a timeout attribute holding Python's None
None == -1

Bytes == {0, 1}
Data == UNION {[1..n -> Bytes] : n \in 0..MaxLen}

\* _baudrate, _timeout and _writeTimeout as the caller configured them
Baudrates == {10}
Timeouts == {None, 0}
WriteTimeouts == {None, 0, 1, 2}

\* self._port: unset, or an URL as urlsplit/parse_qs decompose it
\* (values are tuples: is it set, the scheme, the query as option/value pairs)
NoPort == <<FALSE, "", <<>>>>
Url(s, q) == <<TRUE, s, q>>
UrlSet(u) == u[1]
UrlScheme(u) == u[2]
UrlQuery(u) == u[3]
Ports == {NoPort,
          Url("loop", <<>>),
          Url("loop", << <<"logging", "debug">> >>),
          Url("ftp", <<>>),
          Url("loop", << <<"unknown", "1">> >>),
          Url("loop", << <<"logging", "bogus">> >>)}

LOGGER_LEVELS == {"debug", "info", "warning", "error"}

VARIABLES
    isOpen,        \* self._isOpen
    port,          \* self._port
    logger,        \* self.logger: FALSE is None, TRUE the 'pySerial.loop' logger
    queues,        \* the queue.Queue objects created so far, by creation order
    baudrate,      \* self._baudrate
    timeout,       \* self._timeout
    writeTimeout,  \* self._writeTimeout
    rts_state,     \* self._rts_state
    dtr_state,     \* self._dtr_state
    wpc, wdata, wi, wq,      \* writer thread: position, data, bytes put, queue in use
    wn0,                     \* history: qsize of self.queue when write() was called,
                             \*   None once a call that takes from the queue or
                             \*   replaces it has overlapped
    wput,                    \* history: the bytes write() has put, each by one put()
    rpc, rsize, rdata, rq,   \* reader thread: position, size left, data, queue in use
    rret,                    \* history: the bytes read() has returned, call after call
    cpc,                     \* control thread: position
    sent,                    \* history: the write() calls that filled self.queue
    last                     \* what the step just taken returned or raised, if anything

vars == <<isOpen, port, logger, queues, baudrate, timeout, writeTimeout,
          rts_state, dtr_state, wpc, wdata, wi, wq, wn0, wput, rpc, rsize,
          rdata, rq, rret, cpc, sent, last>>

config == <<port, baudrate, timeout, writeTimeout>>
lines == <<rts_state, dtr_state>>
writer == <<wpc, wdata, wi, wq, wn0, wput>>
reader == <<rpc, rsize, rdata, rq, rret>>

\* ------------------------------------------------------------ call outcomes
\* An outcome is a tuple: the call; "return" or the exception raised; the
\* int, bool and bytes value returned (for read, the int is the size asked
\* for; for write, the bytes are the argument and, when queue.Full was
\* raised, the int is the number of bytes already put); for read, the
\* history the call started from; for a write that returned, the qsize of
\* self.queue when it was called
Outcome(op, st, n, b, d, s) == <<op, st, n, b, d, s, 0>>
OutOp(o) == o[1]
OutSt(o) == o[2]
OutInt(o) == o[3]
OutBool(o) == o[4]
OutData(o) == o[5]
OutSent(o) == o[6]
OutSize(o) == o[7]
NoOutcome == Outcome("", "", 0, FALSE, <<>>, <<>>)
Returned(op) == Outcome(op, "return", 0, FALSE, <<>>, <<>>)
ReturnedInt(op, n) == Outcome(op, "return", n, FALSE, <<>>, <<>>)
ReturnedBool(op, b) == Outcome(op, "return", 0, b, <<>>, <<>>)
Raised(op, exc) == Outcome(op, exc, 0, FALSE, <<>>, <<>>)
\* line 173: return len(data), in a call made when the queue held n0 items
WriteReturned(d, n0) == <<"write", "return", Len(d), FALSE, d, <<>>, n0>>

\* ------------------------------------------------------------ queue.Queue
\* self.queue: the object bound last by open(); 0 before the first open()
qid == Len(queues)
queue == queues[qid]

\* Queue.qsize(), Queue.full() for maxsize = buffer_size
qsize(q) == Len(q)
\* (variant: a queue that takes one item more than maxsize)
full_late(q) == qsize(q) > buffer_size
full(q) == qsize(q) >= buffer_size

\* Queue.put appends at the tail, Queue.get removes the head
\* (variant: a put at the head, as a stack would)
put_front(q, item) == <<item>> \o q
put(q, item) == Append(q, item)
\* (variant: a get that hands out the newest item)
get_item_last(q) == q[Len(q)]
get_item(q) == Head(q)
get_rest(q) == Tail(q)

\* A Queue object no thread is calling and self.queue no longer names is
\* garbage: its content can never be observed again.
Collect(qs, refs) ==
    [i \in DOMAIN qs |-> IF i = Len(qs) \/ i \in refs THEN qs[i] ELSE <<>>]
WRefs == IF wpc = "put" THEN {wq} ELSE {}
RRefs == IF rpc = "get" THEN {rq} ELSE {}

\* ----------------------------------------------------------------- history
\* sent_ds lists the arguments of the write() calls that returned since
\* self.queue was last empty, as long as they are at most two and no other
\* call overlapped them; sent_rd tells that a read() called after them is
\* running. Any other call that takes from the queue, replaces it or
\* overlaps empties the history.
Hist(ds, rd) == <<ds, rd>>
NoSent == Hist(<<>>, FALSE)
sent_ds == sent[1]
sent_rd == sent[2]

RECURSIVE Flat(_)
Flat(ds) == IF ds = <<>> THEN <<>> ELSE ds[1] \o Flat(Tail(ds))

\* the history after write(d) returned, q being the queue it filled
Sent(d, q) ==
    LET ds == Append(sent_ds, d)
    IN  IF /\ rpc = "idle" /\ cpc = "idle"
           /\ Len(ds) <= 2 /\ Len(Flat(ds)) = qsize(q)
          THEN Hist(ds, FALSE) ELSE NoSent

\* the history after a step of the control thread that leaves the queue
Kept == IF sent_rd THEN NoSent ELSE sent

\* wput and rret are kept only where a behaviour is followed from its one
\* open() on; elsewhere they stay at NoTrack
NoTrack == <<None>>
Track(h, bs) == IF h = NoTrack THEN h ELSE h \o bs

\* the Serial object as constructed
Constructed ==
    /\ isOpen = FALSE
    /\ port \in Ports
    /\ logger = FALSE
    /\ queues = <<>>
    /\ baudrate \in Baudrates
    /\ timeout \in Timeouts
    /\ writeTimeout \in WriteTimeouts
    /\ rts_state \in BOOLEAN
    /\ dtr_state \in BOOLEAN
    /\ wpc = "idle" /\ wdata = <<>> /\ wi = 0 /\ wq = 0 /\ wn0 = 0
    /\ rpc = "idle" /\ rsize = 0 /\ rdata = <<>> /\ rq = 0
    /\ cpc = "idle"
    /\ sent = NoSent
    /\ last = NoOutcome

Init == Constructed /\ wput = NoTrack /\ rret = NoTrack

\* ------------------------------------------------------------------ write
\* time_used_to_send > self._writeTimeout, lines 165 and 168, with
\* 10.0*len/baudrate compared exactly (baudrate > 0, small integers)
\* (variant: the duration counted in bytes, not in bits)
time_exceeds_bytes(n, baud, wt) == n > wt * baud
time_exceeds(n, baud, wt) == 10 * n > wt * baud

\* the qsize n that write() found when called, if no other call is running
Called(n) == IF rpc = "idle" /\ cpc = "idle" THEN n ELSE None
\* the same once a call that takes from self.queue or replaces it began
Overlapped == IF wpc = "idle" THEN wn0 ELSE None

WriteIdle == /\ wpc' = "idle" /\ wdata' = <<>> /\ wi' = 0 /\ wq' = 0 /\ wn0' = 0

\* write(data), lines 162-170, and line 173 for empty data; to_bytes of
\* line 163 leaves a bytes argument as it is
Write(d) ==
    /\ wpc = "idle"
    /\ IF ~isOpen
         THEN /\ last' = Raised("write", "portNotOpenError")
              /\ UNCHANGED <<writer, sent>>
         ELSE IF writeTimeout # None /\ time_exceeds(Len(d), baudrate, writeTimeout)
         THEN /\ last' = Outcome("write", "writeTimeoutError", 0, FALSE, d, <<>>)
              /\ UNCHANGED <<writer, sent>>
         ELSE IF Len(d) = 0
         THEN /\ last' = WriteReturned(d, Called(qsize(queue)))
              /\ sent' = Sent(d, queue)
              /\ UNCHANGED writer
         ELSE /\ wpc' = "for" /\ wdata' = d /\ wi' = 0 /\ wq' = 0
              /\ wn0' = Called(qsize(queue))
              /\ last' = NoOutcome
              /\ UNCHANGED wput
              /\ sent' = IF rpc = "idle" /\ cpc = "idle" THEN sent ELSE NoSent
    /\ UNCHANGED <<isOpen, logger, queues, config, lines, reader, cpc>>

\* line 172: self.queue is evaluated, put() is about to be called on it
WriteFor ==
    /\ wpc = "for"
    /\ wpc' = "put" /\ wq' = qid
    /\ last' = NoOutcome
    /\ UNCHANGED <<isOpen, logger, queues, config, lines, wdata, wi, wn0, wput, reader, cpc, sent>>

\* line 172: put() finds room; line 173 after the last byte
WritePut ==
    /\ wpc = "put"
    /\ ~full(queues[wq])
    /\ queues' = Collect([queues EXCEPT ![wq] = put(@, wdata[wi + 1])], RRefs)
    /\ wput' = Track(wput, <<wdata[wi + 1]>>)
    /\ IF wi + 1 = Len(wdata)
         THEN /\ last' = WriteReturned(wdata, wn0)
              /\ sent' = IF wq = qid THEN Sent(wdata, queues'[qid]) ELSE NoSent
              /\ WriteIdle
         ELSE /\ wpc' = "for" /\ wi' = wi + 1 /\ wq' = 0
              /\ last' = NoOutcome
              /\ UNCHANGED <<wdata, wn0, sent>>
    /\ UNCHANGED <<isOpen, logger, config, lines, reader, cpc>>

\* (variant: put(block=False), which never waits for room)
WritePutFull_nowait ==
    /\ wpc = "put"
    /\ full(queues[wq])
    /\ last' = Outcome("write", "queue.Full", wi, FALSE, wdata, <<>>)
    /\ queues' = Collect(queues, RRefs)
    /\ sent' = NoSent
    /\ WriteIdle
    /\ UNCHANGED <<isOpen, logger, config, lines, wput, reader, cpc>>

\* (variant: a failing write that takes back the bytes it has put)
WritePutFull_rollback ==
    /\ wpc = "put"
    /\ full(queues[wq])
    /\ writeTimeout # None
    /\ last' = Outcome("write", "queue.Full", wi, FALSE, wdata, <<>>)
    /\ queues' = Collect([queues EXCEPT ![wq] = SubSeq(@, 1, Len(@) - wi)], RRefs)
    /\ sent' = NoSent
    /\ WriteIdle
    /\ UNCHANGED <<isOpen, logger, config, lines, wput, reader, cpc>>

\* line 172: put(timeout=...) on a queue still full at the deadline raises
\* queue.Full, which write() does not catch
WritePutFull ==
    /\ wpc = "put"
    /\ full(queues[wq])
    /\ writeTimeout # None
    /\ last' = Outcome("write", "queue.Full", wi, FALSE, wdata, <<>>)
    /\ queues' = Collect(queues, RRefs)
    /\ sent' = NoSent
    /\ WriteIdle
    /\ UNCHANGED <<isOpen, logger, config, lines, wput, reader, cpc>>

\* ------------------------------------------------------------------- read
ReadIdle == /\ rpc' = "idle" /\ rsize' = 0 /\ rdata' = <<>> /\ rq' = 0

\* line 154: return bytes(data), after size - left items were asked for
ReadReturn(data, left) ==
    /\ last' = Outcome("read", "return", Len(data) + left, FALSE, data, sent_ds)
    /\ rret' = Track(rret, data)
    /\ sent' = NoSent
    /\ ReadIdle

\* (variant: read() without the test of line 137)
Read_unchecked(size) ==
    /\ rpc = "idle"
    /\ rpc' = "while" /\ rsize' = size /\ rdata' = <<>> /\ rq' = 0
    /\ UNCHANGED rret
    /\ sent' = NoSent
    /\ last' = NoOutcome
    /\ UNCHANGED <<isOpen, logger, queues, config, lines, writer, cpc>>

\* read(size), lines 137-142
Read(size) ==
    /\ rpc = "idle"
    /\ IF ~isOpen
         THEN /\ last' = Raised("read", "portNotOpenError")
              /\ UNCHANGED <<reader, sent, wn0>>
         ELSE /\ rpc' = "while" /\ rsize' = size /\ rdata' = <<>> /\ rq' = 0
              /\ UNCHANGED rret
              /\ sent' = IF wpc = "idle" /\ cpc = "idle"
                           THEN Hist(sent_ds, TRUE) ELSE NoSent
              /\ wn0' = Overlapped
              /\ last' = NoOutcome
    /\ UNCHANGED <<isOpen, logger, queues, config, lines, wpc, wdata, wi, wq, wput, cpc>>

\* line 143: the loop condition; then line 145 evaluates self.queue, or
\* line 154 returns
ReadWhile ==
    /\ rpc = "while"
    /\ IF rsize > 0 /\ isOpen
         THEN /\ rpc' = "get" /\ rq' = qid
              /\ last' = NoOutcome
              /\ UNCHANGED <<rsize, rdata, rret, sent>>
         ELSE ReadReturn(rdata, rsize)
    /\ UNCHANGED <<isOpen, logger, queues, config, lines, writer, cpc>>

\* (variant: line 152 without the test that a timeout is set)
ReadGet_deadline ==
    /\ rpc = "get"
    /\ qsize(queues[rq]) > 0
    /\ queues' = Collect([queues EXCEPT ![rq] = get_rest(@)], WRefs)
    /\ LET data == Append(rdata, get_item(queues[rq]))
       IN  \/ /\ rpc' = "while" /\ rsize' = rsize - 1 /\ rdata' = data /\ rq' = 0
              /\ UNCHANGED rret
              /\ last' = NoOutcome
              /\ sent' = IF sent_rd THEN sent ELSE NoSent
           \/ ReadReturn(data, rsize - 1)
    /\ UNCHANGED <<isOpen, logger, config, lines, writer, cpc>>

\* lines 145-153: get() returns an item; with a timeout set the deadline
\* of line 152 may have passed
ReadGet ==
    /\ rpc = "get"
    /\ qsize(queues[rq]) > 0
    /\ queues' = Collect([queues EXCEPT ![rq] = get_rest(@)], WRefs)
    /\ LET data == Append(rdata, get_item(queues[rq]))
       IN  \/ /\ rpc' = "while" /\ rsize' = rsize - 1 /\ rdata' = data /\ rq' = 0
              /\ UNCHANGED rret
              /\ last' = NoOutcome
              /\ sent' = IF sent_rd THEN sent ELSE NoSent
           \/ /\ timeout # None
              /\ ReadReturn(data, rsize - 1)
    /\ UNCHANGED <<isOpen, logger, config, lines, writer, cpc>>

\* (variant: read() without the except clause of lines 146-147)
ReadGetEmpty_uncaught ==
    /\ rpc = "get"
    /\ qsize(queues[rq]) = 0
    /\ timeout # None
    /\ queues' = Collect(queues, WRefs)
    /\ last' = Raised("read", "queue.Empty")
    /\ sent' = NoSent
    /\ ReadIdle
    /\ UNCHANGED rret
    /\ UNCHANGED <<isOpen, logger, config, lines, writer, cpc>>

\* lines 146-147: get(timeout=...) on a queue still empty at the deadline
\* raises queue.Empty, and the loop is left
ReadGetEmpty ==
    /\ rpc = "get"
    /\ qsize(queues[rq]) = 0
    /\ timeout # None
    /\ queues' = Collect(queues, WRefs)
    /\ ReadReturn(rdata, rsize)
    /\ UNCHANGED <<isOpen, logger, config, lines, writer, cpc>>

\* ------------------------------------------------------------------- open
\* fromURL, lines 106-117: the options of the query, in order. An unknown
\* option raises ValueError, reported as SerialException; a logging value
\* that is no key of LOGGER_LEVELS raises KeyError, which is not caught.
RECURSIVE fromURL_options(_, _)
fromURL_options(q, lg) ==
    IF q = <<>> THEN [exc |-> "", logger |-> lg]
    ELSE LET option == q[1][1]
             value == q[1][2]
         IN  IF option = "logging"
               THEN IF value \in LOGGER_LEVELS
                      THEN fromURL_options(Tail(q), TRUE)
                      ELSE [exc |-> "KeyError", logger |-> TRUE]
               ELSE [exc |-> "SerialException: expected a string in the form",
                     logger |-> lg]

\* fromURL, lines 101-117
fromURL(url, lg) ==
    IF UrlScheme(url) # "loop"
      THEN [exc |-> "SerialException: expected a string in the form", logger |-> lg]
      ELSE fromURL_options(UrlQuery(url), lg)

\* _reconfigurePort, line 89: not 0 < baudrate < 2**32 (b < 2^32 written as
\* b \div 2^16 < 2^16, which fits TLC's 32-bit integers)
invalid_baudrate(b) == ~(0 < b /\ b \div (2^16) < 2^16)

\* (variant: a one-shot port, open() refusing once a queue was created)
Open_once ==
    /\ cpc = "idle"
    /\ IF isOpen \/ qid > 0
         THEN /\ last' = Raised("open", "SerialException: Port is already open.")
              /\ sent' = Kept
              /\ UNCHANGED <<logger, queues, cpc, wn0>>
         ELSE /\ Len(queues) < MaxOpens
              /\ queues' = Collect(Append(queues, <<>>), WRefs \cup RRefs)
              /\ sent' = NoSent
              /\ wn0' = Overlapped
              /\ IF ~UrlSet(port)
                   THEN /\ logger' = FALSE
                        /\ last' = Raised("open", "SerialException: Port must be configured before it can be used.")
                        /\ UNCHANGED cpc
                   ELSE LET r == fromURL(port, FALSE)
                        IN  /\ logger' = r.logger
                            /\ IF r.exc # ""
                                 THEN last' = Raised("open", r.exc) /\ UNCHANGED cpc
                                 ELSE IF invalid_baudrate(baudrate)
                                 THEN last' = Raised("open", "ValueError") /\ UNCHANGED cpc
                                 ELSE cpc' = "open71" /\ last' = NoOutcome
    /\ UNCHANGED <<isOpen, config, lines, wpc, wdata, wi, wq, wput, reader>>

\* (variant: open() without the test of lines 57-58)
Open_unchecked ==
    /\ cpc = "idle"
    /\ Len(queues) < MaxOpens
    /\ queues' = Collect(Append(queues, <<>>), WRefs \cup RRefs)
    /\ sent' = NoSent
    /\ wn0' = Overlapped
    /\ IF ~UrlSet(port)
         THEN /\ logger' = FALSE
              /\ last' = Raised("open", "SerialException: Port must be configured before it can be used.")
              /\ UNCHANGED cpc
         ELSE LET r == fromURL(port, FALSE)
              IN  /\ logger' = r.logger
                  /\ IF r.exc # ""
                       THEN last' = Raised("open", r.exc) /\ UNCHANGED cpc
                       ELSE IF invalid_baudrate(baudrate)
                       THEN last' = Raised("open", "ValueError") /\ UNCHANGED cpc
                       ELSE cpc' = "open71" /\ last' = NoOutcome
    /\ UNCHANGED <<isOpen, config, lines, wpc, wdata, wi, wq, wput, reader>>

\* open(), lines 57-69
Open ==
    /\ cpc = "idle"
    /\ IF isOpen
         THEN /\ last' = Raised("open", "SerialException: Port is already open.")
              /\ sent' = Kept
              /\ UNCHANGED <<logger, queues, cpc, wn0>>
         ELSE /\ Len(queues) < MaxOpens
              /\ queues' = Collect(Append(queues, <<>>), WRefs \cup RRefs)
              /\ sent' = NoSent
              /\ wn0' = Overlapped
              /\ IF ~UrlSet(port)
                   THEN /\ logger' = FALSE
                        /\ last' = Raised("open", "SerialException: Port must be configured before it can be used.")
                        /\ UNCHANGED cpc
                   ELSE LET r == fromURL(port, FALSE)
                        IN  /\ logger' = r.logger
                            /\ IF r.exc # ""
                                 THEN last' = Raised("open", r.exc) /\ UNCHANGED cpc
                                 ELSE IF invalid_baudrate(baudrate)
                                 THEN last' = Raised("open", "ValueError") /\ UNCHANGED cpc
                                 ELSE cpc' = "open71" /\ last' = NoOutcome
    /\ UNCHANGED <<isOpen, config, lines, wpc, wdata, wi, wq, wput, reader>>

\* (variant: open() putting both lines back to False)
OpenSetOpen_reset ==
    /\ cpc = "open71"
    /\ isOpen' = TRUE
    /\ rts_state' = FALSE /\ dtr_state' = FALSE
    /\ cpc' = "open76"
    /\ last' = NoOutcome
    /\ sent' = Kept
    /\ UNCHANGED <<logger, queues, config, writer, reader>>

\* open(), lines 71-75, and the entry of reset_input_buffer(), line 177;
\* _update_dtr_state and _update_rts_state only log
OpenSetOpen ==
    /\ cpc = "open71"
    /\ isOpen' = TRUE
    /\ cpc' = "open76"
    /\ last' = NoOutcome
    /\ sent' = Kept
    /\ UNCHANGED <<logger, queues, config, lines, writer, reader>>

\* (variant: "if qsize(): get_nowait()", one item taken at most)
Drain_once(pos, done, out) ==
    /\ cpc = pos
    /\ cpc' = done
    /\ last' = out
    /\ IF qsize(queue) > 0
         THEN /\ queues' = [queues EXCEPT ![qid] = get_rest(@)]
              /\ sent' = NoSent
              /\ wn0' = Overlapped
         ELSE /\ sent' = Kept
              /\ UNCHANGED <<queues, wn0>>
    /\ UNCHANGED <<isOpen, logger, config, lines, wpc, wdata, wi, wq, wput, reader>>

\* lines 180-184 and 194-198: one turn of "while qsize(): get_nowait()"
\* at position pos; the loop leaves to position done with outcome out
Drain(pos, done, out) ==
    /\ cpc = pos
    /\ IF qsize(queue) > 0
         THEN /\ queues' = [queues EXCEPT ![qid] = get_rest(@)]
              /\ sent' = NoSent
              /\ wn0' = Overlapped
              /\ last' = NoOutcome
              /\ UNCHANGED cpc
         ELSE /\ cpc' = done
              /\ last' = out
              /\ sent' = Kept
              /\ UNCHANGED <<queues, wn0>>
    /\ UNCHANGED <<isOpen, logger, config, lines, wpc, wdata, wi, wq, wput, reader>>

\* open(), line 76, and line 77
OpenResetInput == Drain("open76", "open77", NoOutcome)
OpenResetOutput == Drain("open77", "idle", Returned("open"))

\* ------------------------------------------------------------------ close
\* the second definition of close, lines 94-99, replaces the first
Close ==
    /\ cpc = "idle"
    /\ isOpen' = FALSE
    /\ last' = Returned("close")
    /\ sent' = Kept
    /\ UNCHANGED <<logger, queues, config, lines, writer, reader, cpc>>

\* ----------------------------------------------------------- buffer resets
\* reset_input_buffer(), line 177, and reset_output_buffer(), line 191
ResetCall(op, pos) ==
    /\ cpc = "idle"
    /\ IF ~isOpen
         THEN last' = Raised(op, "portNotOpenError") /\ UNCHANGED cpc
         ELSE cpc' = pos /\ last' = NoOutcome
    /\ sent' = Kept
    /\ UNCHANGED <<isOpen, logger, queues, config, lines, writer, reader>>

reset_input_buffer == ResetCall("reset_input_buffer", "reset_in")
reset_output_buffer == ResetCall("reset_output_buffer", "reset_out")
ResetInputDrain == Drain("reset_in", "idle", Returned("reset_input_buffer"))
ResetOutputDrain == Drain("reset_out", "idle", Returned("reset_output_buffer"))

\* ---------------------------------------------------------------- queries
Query(out) ==
    /\ cpc = "idle"
    /\ last' = out
    /\ sent' = Kept
    /\ UNCHANGED <<isOpen, logger, queues, config, lines, writer, reader, cpc>>

\* (variant: the room left in the queue instead of its content)
in_waiting_free ==
    Query(IF ~isOpen THEN Raised("in_waiting", "portNotOpenError")
          ELSE ReturnedInt("in_waiting", buffer_size - qsize(queue)))
\* lines 121-129
in_waiting ==
    Query(IF ~isOpen THEN Raised("in_waiting", "portNotOpenError")
          ELSE ReturnedInt("in_waiting", qsize(queue)))
\* (variant: cts reading the other line)
cts_from_dtr ==
    Query(IF ~isOpen THEN Raised("cts", "portNotOpenError")
          ELSE ReturnedBool("cts", dtr_state))
\* lines 218-224
cts ==
    Query(IF ~isOpen THEN Raised("cts", "portNotOpenError")
          ELSE ReturnedBool("cts", rts_state))
\* lines 226-231
dsr == Query(ReturnedBool("dsr", dtr_state))
\* (variant: ri following rts)
ri_from_rts ==
    Query(IF ~isOpen THEN Raised("ri", "portNotOpenError")
          ELSE ReturnedBool("ri", rts_state))
\* lines 233-239
ri ==
    Query(IF ~isOpen THEN Raised("ri", "portNotOpenError")
          ELSE ReturnedBool("ri", FALSE))
\* lines 241-247
cd ==
    Query(IF ~isOpen THEN Raised("cd", "portNotOpenError")
          ELSE ReturnedBool("cd", TRUE))

\* ------------------------------------------------------------ line setters
\* SerialBase's rts and dtr setters store the value and, on an open port,
\* call _update_rts_state / _update_dtr_state (lines 208-216), which log
set_rts(v) ==
    /\ cpc = "idle"
    /\ rts_state' = v
    /\ last' = ReturnedBool("rts", v)
    /\ sent' = Kept
    /\ UNCHANGED <<isOpen, logger, queues, config, dtr_state, writer, reader, cpc>>

set_dtr(v) ==
    /\ cpc = "idle"
    /\ dtr_state' = v
    /\ last' = ReturnedBool("dtr", v)
    /\ sent' = Kept
    /\ UNCHANGED <<isOpen, logger, queues, config, rts_state, writer, reader, cpc>>

\* ---------------------------------------------------------- specifications
\* no call is in progress
Quiet == wpc = "idle" /\ rpc = "idle" /\ cpc = "idle"

\* a step inside a call in progress
Step ==
    \/ WriteFor
    \/ WritePut
    \/ WritePutFull
    \/ ReadWhile
    \/ ReadGet
    \/ ReadGetEmpty
    \/ OpenSetOpen
    \/ OpenResetInput
    \/ OpenResetOutput
    \/ ResetInputDrain
    \/ ResetOutputDrain

\* a call of the data path or of the life cycle, write() with data of D
DataCall(D) ==
    \/ \E d \in D : Write(d)
    \/ \E size \in 0..MaxLen : Read(size)
    \/ Open
    \/ Close
    \/ reset_input_buffer
    \/ reset_output_buffer

\* a call of a line setter or of a query
LineCall ==
    \/ in_waiting
    \/ cts
    \/ dsr
    \/ ri
    \/ cd
    \/ \E v \in BOOLEAN : set_rts(v)
    \/ \E v \in BOOLEAN : set_dtr(v)

\* One caller: every call runs to its end before the next one is made.
Next ==
    \/ Quiet /\ DataCall(Data)
    \/ Quiet /\ LineCall
    \/ Step

Spec == Init /\ [][Next]_vars

\* Three threads on a port configured with the plain URL: the writer, the
\* reader and the control thread make their calls concurrently.
InitThreads ==
    /\ Init
    /\ port = Url("loop", <<>>)
    /\ rts_state /\ dtr_state

\* the writer sends the bytes 0, 1, 0, ... so that any reordering shows
ThreadData == {[i \in 1..n |-> (i - 1) % 2] : n \in 0..MaxLen}

NextThreads ==
    \/ DataCall(ThreadData)
    \/ Step

SpecThreads == InitThreads /\ [][NextThreads]_vars

\* Every thread that can take a step inside its call eventually takes it:
\* the interpreter schedules each runnable thread. Nothing obliges a caller
\* to make a further call.
WriterStep == WriteFor \/ WritePut \/ WritePutFull
ReaderStep == ReadWhile \/ ReadGet \/ ReadGetEmpty
ControlStep ==
    \/ OpenSetOpen \/ OpenResetInput \/ OpenResetOutput
    \/ ResetInputDrain \/ ResetOutputDrain

FairThreads ==
    /\ SpecThreads
    /\ WF_vars(WriterStep)
    /\ WF_vars(ReaderStep)
    /\ WF_vars(ControlStep)

\* One writer and one reader on a port that is opened once, with the plain
\* URL, and stays open: the bytes are followed from write() to read(). The
\* writer also sends data longer than the queue.
InitPipe ==
    /\ Constructed
    /\ port = Url("loop", <<>>)
    /\ rts_state /\ dtr_state
    /\ wput = <<>> /\ rret = <<>>

PipeData == {[i \in 1..n |-> (i - 1) % 2] : n \in 0..(buffer_size + 1)}

PipeOpen == Quiet /\ qid = 0 /\ Open
PipeWrite ==
    /\ isOpen /\ cpc = "idle"
    /\ \E d \in PipeData : Len(wput) + Len(d) <= MaxBytes /\ Write(d)
PipeRead ==
    /\ isOpen /\ cpc = "idle"
    /\ \E size \in 1..MaxLen : Read(size)

NextPipe ==
    \/ PipeOpen
    \/ OpenSetOpen
    \/ OpenResetInput
    \/ OpenResetOutput
    \/ PipeWrite
    \/ PipeRead
    \/ WriterStep
    \/ ReaderStep

SpecPipe == InitPipe /\ [][NextPipe]_vars

\* Every thread takes the steps of its call, and the reader keeps calling
\* read().
FairPipe ==
    /\ SpecPipe
    /\ WF_vars(OpenSetOpen \/ OpenResetInput \/ OpenResetOutput)
    /\ WF_vars(WriterStep)
    /\ WF_vars(ReaderStep)
    /\ WF_vars(PipeRead)

\* ------------------------------------------------------------------ claims

QueueNeverOverflows ==
    [][/\ \A i \in DOMAIN queues' : qsize(queues'[i]) <= buffer_size
       /\ (wpc = "put" /\ wpc' # "put" /\ wq = qid) =>
             IF qsize(queue) < buffer_size
               THEN queues'[qid] = Append(queue, wdata[wi + 1])
               ELSE /\ writeTimeout # None
                    /\ OutSt(last') = "queue.Full"
                    /\ queues'[qid] = queue]_vars

\* the writer waits in put() on the full queue
WriterBlockedOnFull ==
    /\ wpc = "put" /\ wq = qid
    /\ qsize(queue) = buffer_size
    /\ writeTimeout = None

\* C3: a read() that waits in get() when the port gets closed eventually
\* returns what it has collected.
CloseUnblocksRead ==
    (rpc = "get" /\ ~isOpen) ~> (OutOp(last) = "read" /\ OutSt(last) = "return")

\* C4: read, write, in_waiting and the two resets called on a closed port
\* raise portNotOpenError and leave the queues and the open flag alone.
DataPathOps ==
    {"read", "write", "in_waiting", "reset_input_buffer", "reset_output_buffer"}

ClosedCallsFail ==
    [][(~isOpen /\ Quiet) =>
          /\ wpc' = "idle" /\ rpc' = "idle"
          /\ cpc' \notin {"reset_in", "reset_out"}
          /\ OutOp(last') \in DataPathOps =>
                /\ OutSt(last') = "portNotOpenError"
                /\ queues' = queues
                /\ isOpen' = isOpen]_vars

\* a reset was refused after the port had been open and was closed
ClosedCallRefused ==
    /\ ~isOpen /\ qid > 0
    /\ last = Raised("reset_output_buffer", "portNotOpenError")

\* C5: cts and dsr read on a closed port raise portNotOpenError.
LineQueriesNeedOpen ==
    (~isOpen /\ OutOp(last) \in {"cts", "dsr"}) => OutSt(last) = "portNotOpenError"

LinesMirrored ==
    [][/\ OutOp(last') = "rts" => rts_state' = OutBool(last') /\ dtr_state' = dtr_state
       /\ OutOp(last') = "dtr" => dtr_state' = OutBool(last') /\ rts_state' = rts_state
       /\ OutOp(last') \notin {"rts", "dtr"} => UNCHANGED lines
       /\ (isOpen /\ OutOp(last') = "cts") => last' = ReturnedBool("cts", rts_state)
       /\ (isOpen /\ OutOp(last') = "dsr") => last' = ReturnedBool("dsr", dtr_state)]_vars

\* cts was read as True on an open port while dtr is False
CtsReadTrueDtrFalse ==
    /\ isOpen /\ ~dtr_state
    /\ last = ReturnedBool("cts", TRUE)

\* C8: write(d) called on an open port whose write timeout is less than
\* 10*len(d)/baudrate raises writeTimeoutError and leaves every queue as it
\* was.
WriteCalled == wpc = "idle" /\ (wpc' = "for" \/ OutOp(last') = "write")
WriteArg == IF wpc' = "for" THEN wdata' ELSE OutData(last')

AdvisoryTimeoutPutsNothing ==
    [][(/\ WriteCalled /\ isOpen
        /\ writeTimeout # None
        /\ 10 * Len(WriteArg) > writeTimeout * baudrate) =>
          /\ OutSt(last') = "writeTimeoutError"
          /\ wpc' = "idle"
          /\ queues' = queues]_vars

\* a write was refused for its duration while the queue held a byte
AdvisoryTimeoutRaised ==
    /\ OutOp(last) = "write" /\ OutSt(last) = "writeTimeoutError"
    /\ writeTimeout > 0
    /\ isOpen /\ qsize(queue) > 0

\* C9: a write() never ends with an error other than portNotOpenError and
\* writeTimeoutError; a put that times out on the full queue raises
\* writeTimeoutError.
WriteRaisesOnlyWriteTimeout ==
    OutOp(last) = "write" =>
        OutSt(last) \in {"return", "portNotOpenError", "writeTimeoutError"}

\* C10: each byte a write() puts is appended after the content of the
\* queue; when a put times out on the full queue the queue is left as it
\* is, and its last n items are the first n bytes of the data, n being the
\* number of bytes put before.
PartialWriteStays ==
    [][/\ (wpc = "put" /\ wpc' # "put" /\ OutSt(last') # "queue.Full") =>
             queues'[wq] = Append(queues[wq], wdata[wi + 1])
       /\ OutSt(last') = "queue.Full" =>
             /\ queues' = queues
             /\ OutInt(last') <= qsize(queue)
             /\ SubSeq(queue, qsize(queue) - OutInt(last') + 1, qsize(queue))
                  = SubSeq(OutData(last'), 1, OutInt(last'))]_vars

\* a write failed on the full queue after it had put a byte
PartialWriteFailed ==
    /\ OutOp(last) = "write" /\ OutSt(last) = "queue.Full"
    /\ OutInt(last) > 0

\* a write() has just returned to the only caller
WriteJustReturned == OutOp(last) = "write" /\ OutSt(last) = "return"

\* C11 as claimed: with one caller, write(d) returns len(d) and in_waiting
\* read right after it returns len(d), whatever the queue held before.
InWaitingIsLenWritten ==
    [][WriteJustReturned =>
          /\ OutInt(last) = Len(OutData(last))
          /\ OutOp(last') = "in_waiting" =>
                last' = ReturnedInt("in_waiting", Len(OutData(last)))]_vars

\* C11 as amended: with one caller, write(d) returns len(d) and in_waiting
\* read right after it returns len(d) more than the qsize of the queue when
\* write was called, that is len(d) when the queue was empty.
InWaitingGrowsByLenWritten ==
    [][WriteJustReturned =>
          /\ OutInt(last) = Len(OutData(last))
          /\ (OutOp(last') = "in_waiting" /\ OutSize(last) # None) =>
                last' = ReturnedInt("in_waiting",
                                    OutSize(last) + Len(OutData(last)))]_vars

\* in_waiting was read as 2 after a write of one byte to a queue of one
\* byte returned
InWaitingReadAfterSecondWrite ==
    /\ isOpen /\ Quiet
    /\ last = ReturnedInt("in_waiting", 2)
    /\ sent_ds \in {<< <<0>>, <<1>> >>, << <<1>>, <<0>> >>}

\* C12: with one caller, read(n) on an open port with timeout 0 and an
\* empty queue never waits: each of its steps can be taken at once, none
\* changes a queue, and the call returns the empty bytes, raising nothing.
PollOnEmpty == isOpen /\ timeout = 0 /\ qsize(queue) = 0 /\ rdata = <<>>

PollReturnsEmpty ==
    /\ []((PollOnEmpty /\ rpc # "idle") => ENABLED ReaderStep)
    /\ [][(PollOnEmpty /\ (rpc # "idle" \/ rpc' # "idle" \/ OutOp(last') = "read")) =>
             /\ queues' = queues
             /\ rpc' # "idle" => rdata' = <<>>
             /\ OutOp(last') = "read" =>
                   /\ OutSt(last') = "return"
                   /\ OutData(last') = <<>>]_vars

\* a read of two bytes returned empty from the empty queue
EmptyPollReturned ==
    /\ isOpen /\ timeout = 0 /\ qsize(queue) = 0
    /\ OutOp(last) = "read" /\ OutSt(last) = "return"
    /\ OutInt(last) = 2 /\ OutData(last) = <<>>

\* C13: open() on a port whose URL has another scheme than loop, an option
\* other than logging, or a logging value that is no level name raises the
\* SerialException of fromURL, and the port stays closed.
BadAddresses ==
    {Url("ftp", <<>>),
     Url("loop", << <<"unknown", "1">> >>),
     Url("loop", << <<"logging", "bogus">> >>)}

BadAddressRejected ==
    (OutOp(last) = "open" /\ port \in BadAddresses) =>
        /\ OutSt(last) = "SerialException: expected a string in the form"
        /\ ~isOpen

\* C14: open() called on an open port raises "Port is already open." and
\* changes nothing: the port stays open, self.queue is the same object with
\* the same content, the logger and the rts and dtr states are as before.
OpenCalled == cpc = "idle" /\ (cpc' = "open71" \/ OutOp(last') = "open")

OpenTwiceRefused ==
    [][(isOpen /\ OpenCalled) =>
          /\ last' = Raised("open", "SerialException: Port is already open.")
          /\ isOpen'
          /\ cpc' = "idle"
          /\ queues' = queues
          /\ logger' = logger
          /\ UNCHANGED lines]_vars

\* open() was refused on an open port that holds two bytes, with rts set
SecondOpenRefused ==
    /\ last = Raised("open", "SerialException: Port is already open.")
    /\ isOpen /\ qsize(queue) = 2 /\ rts_state

\* C15: with one caller, open() on a closed port with a valid URL and
\* baudrate is accepted whatever happened before, binds self.queue to a new
\* empty queue (so nothing put before can be read from it), runs to its end
\* without waiting or raising, and returns with the port open and the queue
\* empty.
ValidAddresses == {Url("loop", <<>>), Url("loop", << <<"logging", "debug">> >>)}
InOpen == cpc \in {"open71", "open76", "open77"}

ReopenStartsClean ==
    /\ [](InOpen => ENABLED ControlStep)
    /\ [][(~isOpen /\ OpenCalled /\ port \in ValidAddresses /\ baudrate > 0) =>
             /\ cpc' = "open71"
             /\ qid' = qid + 1
             /\ queue' = <<>>]_vars
    /\ [][InOpen =>
             /\ OutSt(last') \in {"", "return"}
             /\ cpc' = "idle" =>
                   /\ last' = Returned("open")
                   /\ isOpen'
                   /\ qsize(queue') = 0]_vars

\* the second open() of the port has returned
Reopened ==
    /\ last = Returned("open")
    /\ qid = 2 /\ isOpen /\ qsize(queue) = 0

\* C16 as claimed: when open() has returned, rts and dtr are in their
\* default, unset state (False), whatever they were set to before, so that
\* cts and dsr read the default.
OpenResetsLines ==
    last = Returned("open") => (~rts_state /\ ~dtr_state)

\* C16 as amended: open() leaves the rts and dtr states as they are at
\* every step, so that cts and dsr read right after it returned give the
\* values rts and dtr had when open() was called.
OpenKeepsLines ==
    [][/\ (OpenCalled \/ InOpen) => UNCHANGED lines
       /\ (last = Returned("open") /\ OutOp(last') = "cts") =>
             last' = ReturnedBool("cts", rts_state)
       /\ (last = Returned("open") /\ OutOp(last') = "dsr") =>
             last' = ReturnedBool("dsr", dtr_state)]_vars

\* the second open() returned with rts still set and dtr still unset
ReopenedWithRtsSet ==
    /\ last = Returned("open") /\ qid = 2
    /\ rts_state /\ ~dtr_state

\* C17: with one caller, reset_input_buffer() and reset_output_buffer() on
\* an open port are accepted, never wait, take one item from self.queue at
\* every turn, so that they end after qsize() turns, and return with the
\* queue empty; both leave the open flag, the rts and dtr states, the
\* logger and the configuration as they are.
InReset == cpc \in {"reset_in", "reset_out"}
ResetOp == IF cpc = "reset_in" THEN "reset_input_buffer" ELSE "reset_output_buffer"
ResetCalled ==
    /\ cpc = "idle"
    /\ cpc' \in {"reset_in", "reset_out"}
          \/ OutOp(last') \in {"reset_input_buffer", "reset_output_buffer"}

ResetsEmptyQueue ==
    /\ [](InReset => ENABLED ControlStep)
    /\ [][(isOpen /\ ResetCalled) =>
             /\ cpc' \in {"reset_in", "reset_out"}
             /\ UNCHANGED <<isOpen, lines, logger, config, queues>>]_vars
    /\ [][InReset =>
             /\ UNCHANGED <<isOpen, lines, logger, config, qid>>
             /\ IF cpc' = cpc
                  THEN /\ qsize(queue') < qsize(queue)
                       /\ last' = NoOutcome
                  ELSE /\ cpc' = "idle"
                       /\ last' = Returned(ResetOp)
                       /\ queue' = <<>>]_vars

\* reset_output_buffer() is running on the full queue
ResetOfFullQueue ==
    /\ cpc = "reset_out" /\ isOpen
    /\ qsize(queue) = buffer_size

\* a read() has just returned fewer bytes than it was asked for
ShortRead ==
    /\ OutOp(last) = "read" /\ OutSt(last) = "return"
    /\ Len(OutData(last)) < OutInt(last)

Suffix(h, n) == SubSeq(h, Len(h) - n + 1, Len(h))

\* C19: with no write timeout, on a port that stays open and with a reader
\* that keeps reading, write(d) raises nothing, waits in put() as long as
\* the queue is full, and eventually returns len(d), the bytes it has put
\* being those of d, each once and in order.
UntimedWriteCompletes ==
    /\ (writeTimeout = None /\ wpc # "idle") ~> WriteJustReturned
    /\ []((writeTimeout = None /\ isOpen /\ OutOp(last) = "write") =>
             /\ OutSt(last) = "return"
             /\ OutInt(last) = Len(OutData(last))
             /\ Len(wput) >= OutInt(last)
             /\ Suffix(wput, OutInt(last)) = OutData(last))
    /\ [][(writeTimeout = None /\ wpc = "put" /\ full(queues[wq])) =>
             UNCHANGED <<wpc, wdata, wi, wq, wput>>]_vars

\* a write of more bytes than the queue holds returned
LongWriteReturned ==
    /\ writeTimeout = None /\ WriteJustReturned
    /\ Len(OutData(last)) > buffer_size

\* C20: with one writer and one reader on the open port, under every
\* interleaving, the bytes put by write() so far are the bytes returned by
\* read() so far, followed by the bytes the running read() has taken,
\* followed by the content of the queue.
NoByteLost ==
    (qid > 0 /\ wput # NoTrack) =>
        /\ wput = rret \o rdata \o queue
        /\ Len(rret) <= Len(wput)
        /\ SubSeq(wput, 1, Len(rret)) = rret

\* bytes have been returned, taken and left in the queue while the writer
\* waits on the full queue
PipeInFlight ==
    /\ Len(rret) >= 1 /\ rret # NoTrack
    /\ rdata # <<>>
    /\ wpc = "put" /\ full(queue)
====
